---- MODULE Spec2Model ----
(***************************************************************************)
(* URL shortener: short-code allocation and TTL expiration.                *)
(*                                                                         *)
(* Callers (HTTP requests, the cleanup CLI) run URLService methods         *)
(* concurrently, each on its own database session; the urls table is the   *)
(* only shared state.  Every SQL statement / commit is one atomic step, so *)
(* the steps of different callers interleave between statements (READ      *)
(* COMMITTED).  The clock counts whole minutes.                            *)
(***************************************************************************)
EXTENDS Integers, Sequences, FiniteSets, TLC

\* ---------------------------------------------------------------- bounds
MaxTTL == 1
MaxId == 2
MaxTime == MaxTTL + 1

\* ------------------------------------------------------ program constants
\* faulty variant: the loop runs one iteration short
max_attempts_short == 10 - 1

max_attempts == 10

\* --------------------------------------------------------------- domains
Procs == {"p1", "p2"}
\* the codes random.choices can produce, cut down to two of them
\* string.ascii_letters + string.digits
BASE62_CHARS ==
  <<"a", "b", "c", "d", "e", "f", "g", "h", "i", "j", "k", "l", "m">> \o
  <<"n", "o", "p", "q", "r", "s", "t", "u", "v", "w", "x", "y", "z">> \o
  <<"A", "B", "C", "D", "E", "F", "G", "H", "I", "J", "K", "L", "M">> \o
  <<"N", "O", "P", "Q", "R", "S", "T", "U", "V", "W", "X", "Y", "Z">> \o
  <<"0", "1", "2", "3", "4", "5", "6", "7", "8", "9">>

default_length == 6

\* faulty variant: one symbol too few
generate_short_code_short(length, draws) ==
  [i \in 1..(length - 1) |-> BASE62_CHARS[draws[i]]]

\* ''.join(random.choices(BASE62_CHARS, k=length)); draws are the positions
\* random.choices picked
generate_short_code(length, draws) ==
  [i \in 1..length |-> BASE62_CHARS[draws[i]]]

\* the draws behind the candidates of create_short_url: aB3xY9 and Zq7Lm0
SampleDraws == {<<1, 28, 56, 24, 51, 62>>, <<52, 17, 60, 38, 13, 53>>}
CandidateCodes == {generate_short_code(default_length, d) : d \in SampleDraws}
\* the lengths generate_short_code is called with, and the positions drawn:
\* every symbol for the short lengths, the first and the last one otherwise
Lengths == {0, 1, default_length}
DrawsFor(length) == IF length <= 1 THEN 1..Len(BASE62_CHARS) ELSE {1, Len(BASE62_CHARS)}
\* strings are sequences of characters
BlankInputs == {<<>>, <<" ">>, <<" ", "\t">>}
UrlInputs == BlankInputs \cup {<<"a">>, <<" ", "b">>}
\* the arguments concurrent callers submit
SharedUrlInputs == BlankInputs \cup {<<" ", "b">>}

VARIABLES
  store,    \* rows of the urls table
  nextId,   \* the autoincrement sequence of urls.id
  now,      \* the UTC clock
  ttl,      \* settings.APP_TTL_MINUTES
  callers,  \* the callers that issue operations
  inputs,   \* the URLs they submit to create_short_url
  frame,    \* per caller: position and locals of the running method, and
            \* the outcome of the last one
  db_up     \* the database answers; a statement sent while it does not raises

vars == <<store, nextId, now, ttl, callers, inputs, frame, db_up>>

\* ------------------------------------------------------------------ rows
NoRow == [id |-> 0, original_url |-> <<>>, short_code |-> <<>>, created_at |-> 0]

\* faulty variant: the URL is stored stripped of surrounding whitespace
URL_stripped(i, u, c, t) ==
  [id |-> i,
   original_url |-> IF u # <<>> /\ Head(u) = " " THEN Tail(u) ELSE u,
   short_code |-> c, created_at |-> t]

\* faulty variant: every row gets the same id
URL_same_id(i, u, c, t) ==
  [id |-> 1, original_url |-> u, short_code |-> c, created_at |-> t]

URL(i, u, c, t) == [id |-> i, original_url |-> u, short_code |-> c, created_at |-> t]

\* outcomes of a method
NoneRet == [kind |-> "none"]
UrlRet(r) == [kind |-> "url", url |-> r]
BoolRet(b) == [kind |-> "bool", b |-> b]
IntRet(n) == [kind |-> "int", n |-> n]
ListRet(s) == [kind |-> "list", urls |-> s]
Raise(e) == [kind |-> "raise", exc |-> e]
StrRet(s) == [kind |-> "str", str |-> s]
Pending == [kind |-> "pending"]

\* ------------------------------------------------------------- utilities
\* a duration of so many minutes, in clock units
timedelta(minutes) == minutes

\* faulty variant: the record already counts as expired at age = TTL
is_url_expired_ge(created_at, ttl_minutes, t) == t >= created_at + timedelta(ttl_minutes)

\* faulty variant: the comparison is reversed
is_url_expired_lt(created_at, ttl_minutes, t) == t < created_at + timedelta(ttl_minutes)

is_url_expired(created_at, ttl_minutes, t) == t > created_at + timedelta(ttl_minutes)

calculate_expiration_time(ttl_minutes, t) == t - timedelta(ttl_minutes)

\* the characters str.strip removes, among those of the inputs
Whitespace == {" ", "\t", "\n"}

RECURSIVE lstrip(_)
lstrip(s) == IF s # <<>> /\ Head(s) \in Whitespace THEN lstrip(Tail(s)) ELSE s

RECURSIVE rstrip(_)
rstrip(s) == IF s # <<>> /\ s[Len(s)] \in Whitespace THEN rstrip(SubSeq(s, 1, Len(s) - 1)) ELSE s

strip(s) == rstrip(lstrip(s))

\* faulty variant: only the empty string is rejected
IsInvalidUrl_empty(u) == u = <<>>

IsInvalidUrl(u) == u = <<>> \/ Len(strip(u)) = 0

\* ------------------------------------------------------------ repository
RowsWithCode(rows, c) == {r \in rows : r.short_code = c}

\* faulty variant: the lookup filters on nothing it can find
get_by_short_code_none(rows, c) == NoRow

get_by_short_code(rows, c) ==
  IF RowsWithCode(rows, c) = {} THEN NoRow ELSE CHOOSE r \in RowsWithCode(rows, c) : TRUE

short_code_exists(rows, c) == Cardinality(RowsWithCode(rows, c)) > 0

\* faulty variant: the column is declared without unique=True
UniqueViolation_never(rows, c) == FALSE

\* the unique index on urls.short_code rejects the INSERT
UniqueViolation(rows, c) == \E r \in rows : r.short_code = c

\* faulty variant: the delete is never committed
DeleteById_none(rows, i) == rows

\* faulty variant: the row is kept and its short_code blanked
DeleteById_tombstone(rows, i) ==
  {IF r.id = i THEN [r EXCEPT !.short_code = <<>>] ELSE r : r \in rows}

DeleteById(rows, i) == {r \in rows : r.id # i}

\* faulty variant: a row created exactly at the cutoff is selected too
ExpiredBefore_le(rows, cutoff) == {r \in rows : r.created_at <= cutoff}

ExpiredBefore(rows, cutoff) == {r \in rows : r.created_at < cutoff}

\* the orders in which a SELECT without ORDER BY can return the rows
Orderings(rows) ==
  {s \in [1..Cardinality(rows) -> rows] : \A i, j \in 1..Cardinality(rows) : i # j => s[i] # s[j]}

\* ---------------------------------------------------------------- frames
\* a caller between two calls: only the method's name and outcome remain
Frame(method, r) ==
  [pc |-> "idle", op |-> method, ret |-> r,
   original_url |-> <<>>,   \* argument of create_short_url
   short_code |-> <<>>,     \* code argument / candidate / code being purged
   attempts |-> 0,          \* iterations of the allocation loop so far
   url |-> NoRow,           \* row the service's lookup found
   t0 |-> 0,                \* clock when the method took its first reading
   del_id |-> 0,            \* id of the row delete_by_short_code found
   del_calls |-> 0,         \* delete_by_short_code calls made by the method
   all_urls |-> <<>>,       \* result of repository.get_all
   idx |-> 0,               \* position of the for loop in all_urls
   valid_urls |-> <<>>,     \* the list get_all_urls builds
   expired_urls |-> {},     \* rows selected by delete_expired
   again |-> FALSE,         \* history: delete_url repeats the caller's last call,
                            \* a delete_url of the same code that returned True
   stale |-> FALSE,         \* history: the row delete_url found had expired
   length |-> 0]            \* argument of generate_short_code

Running(method, at) == [Frame(method, Pending) EXCEPT !.pc = at]

Allocating == {p \in Procs : frame[p].pc \in {"alloc_loop", "alloc_create"}}

\* the frame of a method in which a repository call raised: no method of
\* URLService has an except clause, the exception leaves the method as it is
StorageFailure_swallowed(method) ==
  CASE method = "get_url_by_code" -> Frame(method, NoneRet)
    [] method = "get_all_urls" -> Frame(method, ListRet(<<>>))
    [] OTHER -> Frame(method, Raise("OperationalError"))

StorageFailure(method) == Frame(method, Raise("OperationalError"))

\* ------------------------------------------------------------------ init
Init ==
  /\ store = {}
  /\ nextId = 1
  /\ now = 0
  /\ ttl \in 0..MaxTTL
  /\ callers = Procs
  /\ inputs = SharedUrlInputs
  /\ frame = [p \in Procs |-> Frame("none", NoneRet)]
  /\ db_up = TRUE

\* one caller: every method runs to its end before the next call
InitSeq ==
  /\ store = {}
  /\ nextId = 1
  /\ now = 0
  /\ ttl \in 0..MaxTTL
  /\ callers = {"p1"}
  /\ inputs = UrlInputs
  /\ frame = [p \in Procs |-> Frame("none", NoneRet)]
  /\ db_up = TRUE

\* one caller and a database that can go away and come back
InitFault ==
  /\ store = {}
  /\ nextId = 1
  /\ now = 0
  /\ ttl \in 0..MaxTTL
  /\ callers = {"p1"}
  /\ inputs = SharedUrlInputs
  /\ frame = [p \in Procs |-> Frame("none", NoneRet)]
  /\ db_up = TRUE

\* ----------------------------------------------------------------- clock
Tick ==
  /\ now < MaxTime
  /\ now' = now + 1
  /\ UNCHANGED <<store, nextId, ttl, callers, inputs, frame, db_up>>

\* ------------------------------------------- URLService.create_short_url
\* the call and the validation of the argument
CreateShortUrlCall(p, u) ==
  /\ frame[p].pc = "idle"
  /\ nextId + Cardinality(Allocating) <= MaxId
  /\ frame' = [frame EXCEPT ![p] =
       IF IsInvalidUrl(u)
         THEN [Frame("create_short_url", Raise("ValueError: URL cannot be empty"))
                 EXCEPT !.original_url = u]
         ELSE [Running("create_short_url", "alloc_loop") EXCEPT !.original_url = u]]
  /\ UNCHANGED <<store, nextId, now, ttl, callers, inputs, db_up>>

CreateShortUrl == \E p \in callers, u \in inputs : CreateShortUrlCall(p, u)

\* faulty variant: create is called without asking short_code_exists
AllocAttemptStep_unchecked(p, c) ==
  /\ frame[p].pc = "alloc_loop"
  /\ frame[p].attempts < max_attempts
  /\ frame' = [frame EXCEPT ![p] =
       IF ~ db_up THEN StorageFailure("create_short_url")
       ELSE [@ EXCEPT !.pc = "alloc_create", !.short_code = c, !.attempts = @ + 1]]
  /\ UNCHANGED <<store, nextId, now, ttl, callers, inputs, db_up>>

\* faulty variant: the loop starts over when the attempts are used up
AllocAttemptStep_restart(p, c) ==
  /\ frame[p].pc = "alloc_loop"
  /\ frame[p].attempts < max_attempts
  /\ frame' = [frame EXCEPT ![p] =
       IF ~ db_up THEN StorageFailure("create_short_url")
       ELSE IF ~ short_code_exists(store, c)
         THEN [@ EXCEPT !.pc = "alloc_create", !.short_code = c, !.attempts = @ + 1]
         ELSE IF frame[p].attempts + 1 < max_attempts
           THEN [@ EXCEPT !.attempts = @ + 1]
           ELSE [@ EXCEPT !.attempts = 0]]
  /\ UNCHANGED <<store, nextId, now, ttl, callers, inputs, db_up>>

\* one iteration of the loop: generate_short_code gave c, then
\* short_code_exists
AllocAttemptStep(p, c) ==
  /\ frame[p].pc = "alloc_loop"
  /\ frame[p].attempts < max_attempts
  /\ frame' = [frame EXCEPT ![p] =
       IF ~ db_up THEN StorageFailure("create_short_url")
       ELSE IF ~ short_code_exists(store, c)
         THEN [@ EXCEPT !.pc = "alloc_create", !.short_code = c, !.attempts = @ + 1]
         ELSE IF frame[p].attempts + 1 < max_attempts
           THEN [@ EXCEPT !.attempts = @ + 1]
           ELSE [Frame("create_short_url",
                       Raise("ValueError: Failed to generate unique short code"))
                   EXCEPT !.attempts = frame[p].attempts + 1]]
  /\ UNCHANGED <<store, nextId, now, ttl, callers, inputs, db_up>>

AllocAttempt == \E p \in callers, c \in CandidateCodes : AllocAttemptStep(p, c)

\* URLRepository.create: INSERT and commit
AllocCreateStep(p) ==
  /\ frame[p].pc = "alloc_create"
  /\ nextId' = nextId + 1
  /\ IF ~ db_up
       THEN /\ store' = store
            /\ frame' = [frame EXCEPT ![p] = StorageFailure("create_short_url")]
       ELSE IF UniqueViolation(store, frame[p].short_code)
       THEN /\ store' = store
            /\ frame' = [frame EXCEPT ![p] = Frame("create_short_url", Raise("IntegrityError"))]
       ELSE LET db_url == URL(nextId, frame[p].original_url, frame[p].short_code, now) IN
            /\ store' = store \cup {db_url}
            /\ frame' = [frame EXCEPT ![p] =
                 [Frame("create_short_url", UrlRet(db_url))
                    EXCEPT !.original_url = frame[p].original_url]]
  /\ UNCHANGED <<now, ttl, callers, inputs, db_up>>

AllocCreate == \E p \in callers : AllocCreateStep(p)

\* ------------------------------------ URLRepository.delete_by_short_code
RECURSIVE Scan(_, _)
\* the for loop of get_all_urls from position f.idx on, up to the next call
\* of delete_by_short_code or to the return
Scan(f, t) ==
  IF f.idx > Len(f.all_urls)
    THEN [Frame("get_all_urls", ListRet(f.valid_urls))
            EXCEPT !.all_urls = f.all_urls, !.t0 = f.t0, !.del_calls = f.del_calls]
    ELSE LET row == f.all_urls[f.idx] IN
         IF ~ is_url_expired(row.created_at, ttl, t)
           THEN Scan([f EXCEPT !.valid_urls = Append(@, row), !.idx = @ + 1], t)
           ELSE [f EXCEPT !.pc = "del_lookup", !.short_code = row.short_code,
                          !.del_calls = @ + 1]

\* what the calling method does with the result of delete_by_short_code
AfterDelete(f, deleted, t) ==
  CASE f.op = "delete_url" ->
         [Frame("delete_url", BoolRet(deleted))
            EXCEPT !.short_code = f.short_code, !.again = f.again, !.stale = f.stale]
    [] f.op = "get_url_by_code" -> [Frame("get_url_by_code", NoneRet) EXCEPT !.url = f.url]
    [] f.op = "get_all_urls" ->
         Scan([f EXCEPT !.idx = @ + 1, !.short_code = <<>>, !.del_id = 0], t)

\* faulty variant: the lookup of the delete skips rows that have expired
DelLookupStep_live(p) ==
  /\ frame[p].pc = "del_lookup"
  /\ LET found == get_by_short_code(store, frame[p].short_code) IN
       frame' = [frame EXCEPT ![p] =
         IF ~ db_up
           THEN [StorageFailure(frame[p].op) EXCEPT !.del_calls = frame[p].del_calls]
         ELSE IF found = NoRow \/ is_url_expired(found.created_at, ttl, now)
           THEN AfterDelete(@, FALSE, now)
           ELSE [@ EXCEPT !.pc = "del_delete", !.del_id = found.id]]
  /\ UNCHANGED <<store, nextId, now, ttl, callers, inputs, db_up>>

\* url = self.get_by_short_code(short_code); if url: ... else return False
DelLookupStep(p) ==
  /\ frame[p].pc = "del_lookup"
  /\ LET found == get_by_short_code(store, frame[p].short_code) IN
       frame' = [frame EXCEPT ![p] =
         IF ~ db_up
           THEN [StorageFailure(frame[p].op) EXCEPT !.del_calls = frame[p].del_calls]
         ELSE IF found = NoRow
           THEN AfterDelete(@, FALSE, now)
           ELSE [@ EXCEPT !.pc = "del_delete", !.del_id = found.id,
                          !.stale = /\ frame[p].op = "delete_url"
                                    /\ is_url_expired(found.created_at, ttl, now)]]
  /\ UNCHANGED <<store, nextId, now, ttl, callers, inputs, db_up>>

DelLookup == \E p \in callers : DelLookupStep(p)

\* self.db.delete(url); self.db.commit(); return True
\* (DELETE FROM urls WHERE id = ..., a row already gone is only a warning)
DelCommitStep(p) ==
  /\ frame[p].pc = "del_delete"
  /\ store' = IF db_up THEN DeleteById(store, frame[p].del_id) ELSE store
  /\ frame' = [frame EXCEPT ![p] =
       IF db_up
         THEN AfterDelete(@, TRUE, now)
         ELSE [StorageFailure(frame[p].op) EXCEPT !.del_calls = frame[p].del_calls]]
  /\ UNCHANGED <<nextId, now, ttl, callers, inputs, db_up>>

DelCommit == \E p \in callers : DelCommitStep(p)

\* -------------------------------------------- URLService.get_url_by_code
GetUrlByCodeCall(p, c) ==
  /\ frame[p].pc = "idle"
  /\ LET found == get_by_short_code(store, c) IN
       frame' = [frame EXCEPT ![p] =
         IF ~ db_up THEN StorageFailure("get_url_by_code")
         ELSE IF found # NoRow /\ is_url_expired(found.created_at, ttl, now)
           THEN [Running("get_url_by_code", "del_lookup")
                   EXCEPT !.short_code = c, !.url = found, !.del_calls = 1]
           ELSE IF found = NoRow
             THEN Frame("get_url_by_code", NoneRet)
             ELSE Frame("get_url_by_code", UrlRet(found))]
  /\ UNCHANGED <<store, nextId, now, ttl, callers, inputs, db_up>>

GetUrlByCode == \E p \in callers, c \in CandidateCodes : GetUrlByCodeCall(p, c)

\* ----------------------------------------------- URLService.get_all_urls
GetAllUrlsCall(p, rows) ==
  /\ frame[p].pc = "idle"
  /\ frame' = [frame EXCEPT ![p] =
       IF ~ db_up THEN StorageFailure("get_all_urls")
       ELSE Scan([Running("get_all_urls", "list_loop")
                    EXCEPT !.all_urls = rows, !.idx = 1, !.t0 = now], now)]
  /\ UNCHANGED <<store, nextId, now, ttl, callers, inputs, db_up>>

GetAllUrls == \E p \in callers, rows \in Orderings(store) : GetAllUrlsCall(p, rows)

\* ------------------------------------------------- URLService.delete_url
DeleteUrlCall(p, c) ==
  /\ frame[p].pc = "idle"
  /\ frame' = [frame EXCEPT ![p] =
       [Running("delete_url", "del_lookup")
          EXCEPT !.short_code = c, !.del_calls = 1,
                 !.again = /\ frame[p].op = "delete_url"
                           /\ frame[p].short_code = c
                           /\ frame[p].ret = BoolRet(TRUE)]]
  /\ UNCHANGED <<store, nextId, now, ttl, callers, inputs, db_up>>

DeleteUrl == \E p \in callers, c \in CandidateCodes : DeleteUrlCall(p, c)

\* --------------------------------------- URLService.cleanup_expired_urls
\* URLRepository.delete_expired: the SELECT
CleanupCall(p) ==
  /\ frame[p].pc = "idle"
  /\ frame' = [frame EXCEPT ![p] =
       IF ~ db_up THEN StorageFailure("cleanup_expired_urls")
       ELSE [Running("cleanup_expired_urls", "sweep_commit")
               EXCEPT !.expired_urls = ExpiredBefore(store, calculate_expiration_time(ttl, now))]]
  /\ UNCHANGED <<store, nextId, now, ttl, callers, inputs, db_up>>

CleanupExpiredUrls == \E p \in callers : CleanupCall(p)

\* URLRepository.delete_expired: the DELETEs, the commit and the count
SweepCommitStep(p) ==
  /\ frame[p].pc = "sweep_commit"
  /\ store' = IF db_up
                THEN {r \in store : \A e \in frame[p].expired_urls : e.id # r.id}
                ELSE store
  /\ frame' = [frame EXCEPT ![p] =
       IF db_up
         THEN Frame("cleanup_expired_urls", IntRet(Cardinality(frame[p].expired_urls)))
         ELSE StorageFailure("cleanup_expired_urls")]
  /\ UNCHANGED <<nextId, now, ttl, callers, inputs, db_up>>

SweepCommit == \E p \in callers : SweepCommitStep(p)

Next ==
  \/ Tick
  \/ CreateShortUrl
  \/ AllocAttempt
  \/ AllocCreate
  \/ GetUrlByCode
  \/ GetAllUrls
  \/ DeleteUrl
  \/ CleanupExpiredUrls
  \/ DelLookup
  \/ DelCommit
  \/ SweepCommit

Spec == Init /\ [][Next]_vars

SpecSeq == InitSeq /\ [][Next]_vars

\* a call of create_short_url that has started keeps running: its thread is
\* scheduled and its statements return
SpecLive ==
  /\ Init
  /\ [][Next]_vars
  /\ \A p \in Procs :
       /\ WF_vars(\E c \in CandidateCodes : AllocAttemptStep(p, c))
       /\ WF_vars(AllocCreateStep(p))

\* the database goes away or comes back
Outage ==
  /\ db_up' = ~ db_up
  /\ UNCHANGED <<store, nextId, now, ttl, callers, inputs, frame>>

NextFault == Next \/ Outage

SpecFault == InitFault /\ [][NextFault]_vars

\* ------------------------------------------------- generate_short_code
\* a direct call of the generator, as test_short_code_generation makes
GenerateShortCode ==
  \E p \in callers, length \in Lengths :
    \E draws \in [1..length -> DrawsFor(length)] :
      /\ frame[p].pc = "idle"
      /\ frame' = [frame EXCEPT ![p] =
           [Frame("generate_short_code", StrRet(generate_short_code(length, draws)))
              EXCEPT !.length = length]]
      /\ UNCHANGED <<store, nextId, now, ttl, callers, inputs, db_up>>

NextGen == Next \/ GenerateShortCode

SpecGen == InitFault /\ [][NextGen]_vars

\* ------------------------------------------- controllers: GET /u/{code}
JSONResponse(status_code, st) ==
  [status_code |-> status_code, status |-> st, location |-> <<>>]

RedirectResponse(url, status_code) ==
  [status_code |-> status_code, status |-> "", location |-> url]

\* faulty variant: a missing link is answered with 410
redirect_to_url_gone(ret) ==
  IF ret.kind = "raise" THEN JSONResponse(500, "failure")
  ELSE IF ret = NoneRet THEN JSONResponse(410, "failure")
  ELSE RedirectResponse(ret.url.original_url, 302)

\* the response of redirect_to_url, from the outcome ret of
\* service.get_url_by_code(code)
redirect_to_url(ret) ==
  IF ret.kind = "raise" THEN JSONResponse(500, "failure")
  ELSE IF ret = NoneRet THEN JSONResponse(404, "failure")
  ELSE RedirectResponse(ret.url.original_url, 302)

\* ------------------------------------------------ controllers: POST /urls
\* the exceptions create_short_url raises itself, both of class ValueError
ValueErrors ==
  {"ValueError: URL cannot be empty",
   "ValueError: Failed to generate unique short code"}

exc_class(exc) == IF exc \in ValueErrors THEN "ValueError" ELSE exc

\* str(e)
exc_message(exc) ==
  CASE exc = "ValueError: URL cannot be empty" -> "URL cannot be empty"
    [] exc = "ValueError: Failed to generate unique short code" ->
         "Failed to generate unique short code"
    [] OTHER -> exc

\* the response of the handler create_short_url, from the outcome ret of
\* service.create_short_url(...)
create_short_url_response(ret) ==
  IF ret.kind = "url"
    THEN [status_code |-> 201, status |-> "success",
          message |-> "Short URL created successfully"]
  ELSE IF exc_class(ret.exc) = "ValueError"
    THEN [status_code |-> 400, status |-> "failure",
          message |-> "Invalid URL: " \o exc_message(ret.exc)]
    ELSE [status_code |-> 500, status |-> "failure",
          message |-> "Failed to create short URL: Internal server error"]

\* ======================================================================
\* Properties
\* ======================================================================
Stored(c) == \E r \in store : r.short_code = c

Range(sq) == {sq[i] : i \in 1..Len(sq)}

Returned(p, method) == frame[p].pc = "idle" /\ frame[p].op = method

\* C1: in every reachable state, whatever the interleaving of the callers,
\* no two rows of the store carry the same short_code.
C1_UniqueShortCodes ==
  \A r1, r2 \in store : r1.short_code = r2.short_code => r1 = r2

\* two callers drew the same candidate, both saw it free, one INSERT was
\* committed and the other was rejected by the unique index
C1_Witness ==
  \E p, q \in Procs :
    /\ p # q
    /\ Returned(p, "create_short_url") /\ frame[p].ret = Raise("IntegrityError")
    /\ Returned(q, "create_short_url") /\ frame[q].ret.kind = "url"
    /\ frame[q].ret.url \in store

\* C2: a create rejected with a duplicate key is retried; create_short_url
\* never ends with the duplicate-key failure.
C2_DuplicateKeyNeverSurfaced ==
  \A p \in Procs : Returned(p, "create_short_url") => frame[p].ret # Raise("IntegrityError")

\* C3: with TTL = T > 0, get_url_by_code of a stored code returns the row when
\* now <= created_at + T; when now > created_at + T it takes the purge
\* path, and that path ends with None.
C3_Expiration ==
  [][ttl > 0 =>
       \A p \in Procs :
         /\ \A c \in CandidateCodes :
              GetUrlByCodeCall(p, c) =>
                \A r \in store : r.short_code = c =>
                  IF now <= r.created_at + timedelta(ttl)
                    THEN Returned(p, "get_url_by_code")' /\ frame'[p].ret = UrlRet(r)
                    ELSE /\ frame'[p].pc = "del_lookup"
                         /\ frame'[p].op = "get_url_by_code"
         /\ ( /\ frame[p].op = "get_url_by_code"
              /\ frame[p].pc \in {"del_lookup", "del_delete"}
              /\ frame'[p].pc = "idle" ) => frame'[p].ret = NoneRet]_vars

\* the row is returned at the very end of its life, age = TTL
C3_Witness ==
  \E p \in Procs :
    /\ ttl > 0
    /\ Returned(p, "get_url_by_code")
    /\ frame[p].ret.kind = "url"
    /\ frame[p].ret.url \in store
    /\ now = frame[p].ret.url.created_at + timedelta(ttl)

\* C4: with TTL = 0 no row ever expires: a get_url_by_code that found a row
\* returns it instead of purging it, and get_all_urls returns every row it
\* was given without calling delete_by_short_code.
C4_TtlZeroDisablesExpiration ==
  ttl = 0 =>
    \A p \in Procs :
      /\ Returned(p, "get_url_by_code") => frame[p].url = NoRow
      /\ Returned(p, "get_all_urls") =>
            /\ frame[p].ret.urls = frame[p].all_urls
            /\ frame[p].del_calls = 0

\* C5: with TTL = 0 cleanup_expired_urls returns 0.
C5_TtlZeroSweepsNothing ==
  ttl = 0 =>
    \A p \in Procs :
      Returned(p, "cleanup_expired_urls") => frame[p].ret = IntRet(0)

\* C6: when get_url_by_code finds a stored row that is expired it takes the
\* purge path, and when that path returns, the result is None and the row
\* is no longer in the store.
C6_LazyPurge ==
  [][\A p \in Procs :
       /\ \A c \in CandidateCodes :
            GetUrlByCodeCall(p, c) =>
              \A r \in store :
                (r.short_code = c /\ now > r.created_at + timedelta(ttl)) =>
                   /\ frame'[p].pc = "del_lookup"
                   /\ frame'[p].url = r
                   /\ frame'[p].short_code = c
       /\ (frame[p].op = "get_url_by_code" /\ frame[p].pc # "idle" /\ frame'[p].pc = "idle") =>
            /\ frame'[p].ret = NoneRet
            /\ frame[p].url \notin store'
            /\ get_by_short_code(store', frame[p].short_code) # frame[p].url]_vars

\* get_url_by_code found an expired row and returned None
C6_Witness ==
  \E p \in Procs :
    /\ Returned(p, "get_url_by_code")
    /\ frame[p].url # NoRow
    /\ now > frame[p].url.created_at + timedelta(ttl)
    /\ frame[p].ret = NoneRet
    /\ frame[p].url \notin store

\* C7: get_all_urls returns rows of the list get_all gave it, in that order:
\* none that was expired when the call began, and every one that is still
\* not expired; with the clock unmoved, exactly the non-expired ones.
C7_ListLive ==
  \A p \in Procs :
    Returned(p, "get_all_urls") =>
      LET all == frame[p].all_urls
          got == frame[p].ret.urls
          LiveAt(t) == SelectSeq(all, LAMBDA r : ~ (t > r.created_at + timedelta(ttl)))
      IN  /\ got = SelectSeq(all, LAMBDA r : r \in Range(got))
          /\ Range(got) \subseteq Range(LiveAt(frame[p].t0))
          /\ Range(LiveAt(now)) \subseteq Range(got)
          /\ now = frame[p].t0 => got = LiveAt(now)

\* a listing that kept one row and left an expired one out
C7_Witness ==
  \E p \in Procs :
    /\ Returned(p, "get_all_urls")
    /\ Len(frame[p].all_urls) = 2
    /\ Len(frame[p].ret.urls) = 1
    /\ now = frame[p].t0

\* C8: get_all_urls calls delete_by_short_code once per expired row; when it
\* has returned, none of the rows it left out is stored and every row it
\* listed still is.
C8_ListPurges ==
  \A p \in Procs :
    Returned(p, "get_all_urls") =>
      LET left_out == Range(frame[p].all_urls) \ Range(frame[p].ret.urls) IN
        /\ frame[p].del_calls = Cardinality(left_out)
        /\ left_out \cap store = {}
        /\ Range(frame[p].ret.urls) \subseteq store

\* a listing that purged an expired row and listed a live one
C8_Witness ==
  \E p \in Procs :
    /\ Returned(p, "get_all_urls")
    /\ frame[p].del_calls = 1
    /\ Len(frame[p].ret.urls) = 1
    /\ Cardinality(store) = 1

\* C9: after create_short_url(u) returned a row with code c, the caller's
\* next call get_url_by_code(c), made before the row expires, returns a row
\* with original_url = u and short_code = c.
C9_RoundTrip ==
  [][\A p \in Procs, c \in CandidateCodes :
       ( /\ Returned(p, "create_short_url")
         /\ frame[p].ret.kind = "url"
         /\ frame[p].ret.url.short_code = c
         /\ ~ (now > frame[p].ret.url.created_at + timedelta(ttl))
         /\ GetUrlByCodeCall(p, c) ) =>
           /\ Returned(p, "get_url_by_code")'
           /\ frame'[p].ret.kind = "url"
           /\ frame'[p].ret.url.original_url = frame[p].original_url
           /\ frame'[p].ret.url.short_code = c]_vars

\* a URL with leading whitespace came back as it was submitted
C9_Witness ==
  \E p \in Procs :
    /\ Returned(p, "get_url_by_code")
    /\ frame[p].ret.kind = "url"
    /\ frame[p].ret.url \in store
    /\ frame[p].ret.url.original_url = <<" ", "b">>

\* C10: delete_url of a stored code returns True, the same call repeated at
\* once returns False, and delete_url of a code that is not stored returns
\* False and leaves the store as it was.
C10_IdempotentDelete ==
  [][\A p \in Procs :
       frame[p].op = "delete_url" =>
         /\ DelLookupStep(p) =>
              IF Stored(frame[p].short_code)
                THEN /\ ~ frame[p].again
                     /\ frame'[p].pc = "del_delete"
                ELSE /\ Returned(p, "delete_url")'
                     /\ frame'[p].ret = BoolRet(FALSE)
                     /\ store' = store
         /\ DelCommitStep(p) =>
              /\ Returned(p, "delete_url")'
              /\ frame'[p].ret = BoolRet(TRUE)
              /\ \A r \in store' : r.short_code # frame[p].short_code]_vars

\* the second of two delete_url calls in a row returned False
C10_Witness ==
  \E p \in Procs :
    /\ Returned(p, "delete_url")
    /\ frame[p].again
    /\ frame[p].ret = BoolRet(FALSE)

Exhausted == Raise("ValueError: Failed to generate unique short code")

EmptyUrl == Raise("ValueError: URL cannot be empty")

\* C11: an iteration of the allocation loop whose candidate is taken calls
\* no create and leaves the store as it was; create_short_url raises the
\* exhaustion error at the 10th such iteration, and only there.
C11_AllocationExhausted ==
  [][\A p \in Procs :
       /\ (frame[p].pc = "alloc_loop" /\ frame'[p] # frame[p]) =>
            \/ frame'[p].pc = "alloc_create"
            \/ /\ store' = store
               /\ nextId' = nextId
               /\ IF frame[p].attempts + 1 = 10
                    THEN /\ Returned(p, "create_short_url")'
                         /\ frame'[p].ret = Exhausted
                         /\ frame'[p].attempts = 10
                    ELSE /\ frame'[p].pc = "alloc_loop"
                         /\ frame'[p].attempts = frame[p].attempts + 1
       /\ (frame'[p].ret = Exhausted /\ frame[p].ret # Exhausted) =>
            /\ frame[p].pc = "alloc_loop"
            /\ frame[p].attempts = 10 - 1]_vars

\* ten candidates in a row were taken
C11_Witness ==
  \E p \in Procs :
    /\ Returned(p, "create_short_url")
    /\ frame[p].ret = Exhausted
    /\ frame[p].attempts = 10
    /\ store # {}

\* C12: create_short_url of an empty or all-whitespace URL raises the
\* invalid-input error in the call step itself: no candidate is generated,
\* no repository method is called, the store stays as it was.
C12_BlankUrlRejected ==
  [][\A p \in Procs, u \in UrlInputs :
       (CreateShortUrlCall(p, u) /\ \A i \in 1..Len(u) : u[i] \in {" ", "\t", "\n"}) =>
          /\ Returned(p, "create_short_url")'
          /\ frame'[p].ret = EmptyUrl
          /\ frame'[p].attempts = 0
          /\ frame'[p].short_code = <<>>
          /\ store' = store
          /\ nextId' = nextId]_vars

\* a URL made of whitespace only was rejected
C12_Witness ==
  \E p \in Procs :
    /\ Returned(p, "create_short_url")
    /\ frame[p].ret = EmptyUrl
    /\ frame[p].original_url = <<" ", "\t">>
    /\ frame[p].attempts = 0

\* C13: delete_url looks at nothing but the presence of the code: a stored
\* row is found and deleted and the call returns True, expired or not, in
\* every state the TTL and the clock can be in.
C13_DeleteIgnoresExpiry ==
  [][\A p \in Procs :
       frame[p].op = "delete_url" =>
         /\ DelLookupStep(p) =>
              /\ frame'[p].pc = "del_delete" <=> Stored(frame[p].short_code)
              /\ \A r \in store :
                   r.short_code = frame[p].short_code => frame'[p].del_id = r.id
         /\ DelCommitStep(p) =>
              /\ frame'[p].ret = BoolRet(TRUE)
              /\ \A r \in store' : r.id # frame[p].del_id]_vars

\* delete_url found an expired row that no read had purged, and returned True
C13_Witness ==
  \E p \in Procs :
    /\ Returned(p, "delete_url")
    /\ frame[p].stale
    /\ frame[p].ret = BoolRet(TRUE)
    /\ ~ Stored(frame[p].short_code)

\* C14: with TTL > 0, cleanup_expired_urls selects the stored rows with
\* created_at < now - TTL, deletes exactly those, returns how many it
\* deleted and leaves every other row as it was.
C14_SweepDeletesExpired ==
  [][ttl > 0 =>
       \A p \in Procs :
         /\ CleanupCall(p) =>
              frame'[p].expired_urls = {r \in store : r.created_at < now - timedelta(ttl)}
         /\ SweepCommitStep(p) =>
              /\ frame[p].expired_urls \subseteq store
              /\ store' = store \ frame[p].expired_urls
              /\ frame'[p].ret = IntRet(Cardinality(store \ store'))]_vars

\* a sweep that deleted one row and left a younger one
C14_Witness ==
  \E p \in Procs :
    /\ ttl > 0
    /\ Returned(p, "cleanup_expired_urls")
    /\ frame[p].ret = IntRet(1)
    /\ Cardinality(store) = 1

StorageError == Raise("OperationalError")

\* C15: a repository call that raises ends the method of URLService with
\* that exception: get_url_by_code and get_all_urls whose purge fails do
\* not return None or the list, no other method returns a value either,
\* and the store is as it was.
C15_StorageFailurePropagates ==
  [][\A p \in Procs :
       (~ db_up /\ frame'[p] # frame[p]) =>
         /\ store' = store
         /\ frame[p].pc # "idle" =>
              /\ Returned(p, frame[p].op)'
              /\ frame'[p].ret = StorageError
         /\ ( /\ frame[p].pc = "idle"
              /\ frame'[p].op \in {"get_url_by_code", "get_all_urls", "cleanup_expired_urls"} ) =>
              /\ frame'[p].pc = "idle"
              /\ frame'[p].ret = StorageError]_vars

\* the purge of get_url_by_code failed, the expired row is still stored and
\* the call raised
C15_Witness ==
  \E p \in Procs :
    /\ Returned(p, "get_url_by_code")
    /\ frame[p].del_calls = 1
    /\ frame[p].ret = StorageError
    /\ \E r \in store : is_url_expired(r.created_at, ttl, now)

\* C16: no step changes a stored row: a row of the next state whose id was
\* in the store is the row it was (same original_url, short_code and
\* created_at), and a step adds at most one row, under an id never used.
C16_RowsImmutable ==
  [][/\ \A r2 \in store' :
          (\E r1 \in store : r1.id = r2.id) => r2 \in store
     /\ \A r2 \in store' \ store : r2.id = nextId /\ nextId' > nextId
     /\ Cardinality(store' \ store) <= 1
     /\ \A r1 \in store : r1.id < nextId]_vars

\* a row read back after the clock moved and after another row was created
\* and deleted is the row that was stored
C16_Witness ==
  \E p \in Procs, r \in store :
    /\ Returned(p, "get_url_by_code")
    /\ frame[p].ret = UrlRet(r)
    /\ now > r.created_at
    /\ nextId > MaxId
    /\ Cardinality(store) = 1

Alphanumeric ==
  {"a", "b", "c", "d", "e", "f", "g", "h", "i", "j", "k", "l", "m",
   "n", "o", "p", "q", "r", "s", "t", "u", "v", "w", "x", "y", "z",
   "A", "B", "C", "D", "E", "F", "G", "H", "I", "J", "K", "L", "M",
   "N", "O", "P", "Q", "R", "S", "T", "U", "V", "W", "X", "Y", "Z",
   "0", "1", "2", "3", "4", "5", "6", "7", "8", "9"}

\* C17: generate_short_code(length) returns length symbols, each a letter
\* a-z, A-Z or a digit, and every short_code in the store has 6 such symbols.
C17_GeneratedCodes ==
  /\ \A p \in Procs :
       Returned(p, "generate_short_code") =>
         /\ Len(frame[p].ret.str) = frame[p].length
         /\ \A i \in 1..Len(frame[p].ret.str) : frame[p].ret.str[i] \in Alphanumeric
  /\ \A r \in store :
       /\ Len(r.short_code) = 6
       /\ \A i \in 1..6 : r.short_code[i] \in Alphanumeric

\* a call with the default length returned six symbols
\* while a generated code is stored
C17_Witness ==
  \E p \in Procs :
    /\ Returned(p, "generate_short_code")
    /\ frame[p].length = 6
    /\ frame[p].ret = StrRet(<<"a", "9", "9", "a", "9", "a">>)
    /\ \E r \in store : r.short_code = <<"Z", "q", "7", "L", "m", "0">>

\* C18: GET /u/{code} answers 302 with the row's original_url as location
\* when the code is stored and now <= created_at + TTL; it answers 404
\* with status "failure" when the code is not stored, and when the row
\* has expired: the request then takes the purge path, which ends in 404.
C18_RedirectEndpoint ==
  [][\A p \in Procs :
       /\ \A c \in CandidateCodes :
            (GetUrlByCodeCall(p, c) /\ db_up) =>
              /\ ~ Stored(c) =>
                   /\ Returned(p, "get_url_by_code")'
                   /\ redirect_to_url(frame'[p].ret) =
                        [status_code |-> 404, status |-> "failure", location |-> <<>>]
              /\ \A r \in store : r.short_code = c =>
                   IF now <= r.created_at + timedelta(ttl)
                     THEN /\ Returned(p, "get_url_by_code")'
                          /\ redirect_to_url(frame'[p].ret) =
                               [status_code |-> 302, status |-> "",
                                location |-> r.original_url]
                     ELSE frame'[p].pc = "del_lookup" /\ frame'[p].op = "get_url_by_code"
       /\ ( /\ frame[p].op = "get_url_by_code"
            /\ frame[p].pc \in {"del_lookup", "del_delete"}
            /\ frame'[p].pc = "idle"
            /\ db_up ) =>
              redirect_to_url(frame'[p].ret) =
                [status_code |-> 404, status |-> "failure", location |-> <<>>]]_vars

\* one request was redirected to the stored URL, another one, for a link
\* that had expired, was answered 404 after the purge
C18_Witness ==
  \E p, q \in Procs :
    /\ Returned(p, "get_url_by_code")
    /\ redirect_to_url(frame[p].ret).status_code = 302
    /\ redirect_to_url(frame[p].ret).location = <<" ", "b">>
    /\ Returned(q, "get_url_by_code")
    /\ frame[q].url # NoRow
    /\ redirect_to_url(frame[q].ret).status_code = 404

\* C19: an iteration of the loop of create_short_url draws one candidate and
\* asks short_code_exists, and writes nothing; create is called only for
\* the candidate of the iteration just made, which short_code_exists found
\* free, and with the caller's original_url; the call of create ends
\* create_short_url, so there is one create per call at most and no attempt
\* after the first free candidate; no other step adds a row.
C19_AllocationOrder ==
  [][/\ \A p \in Procs :
          /\ \A c \in CandidateCodes :
               (AllocAttemptStep(p, c) /\ db_up) =>
                 /\ store' = store
                 /\ frame'[p].attempts = frame[p].attempts + 1
                 /\ IF Stored(c)
                      THEN frame'[p].pc # "alloc_create"
                      ELSE /\ frame'[p].pc = "alloc_create"
                           /\ frame'[p].short_code = c
                           /\ frame'[p].original_url = frame[p].original_url
          /\ (frame'[p].pc = "alloc_create" /\ frame[p].pc # "alloc_create") =>
               /\ frame[p].pc = "alloc_loop"
               /\ ~ Stored(frame'[p].short_code)
          /\ (frame[p].pc = "alloc_create" /\ frame'[p] # frame[p]) =>
               /\ Returned(p, "create_short_url")'
               /\ \A r \in store' \ store :
                    /\ r.original_url = frame[p].original_url
                    /\ r.short_code = frame[p].short_code
                    /\ frame'[p].ret = UrlRet(r)
     /\ store' \ store # {} => \E p \in Procs : AllocCreateStep(p)]_vars

\* one caller has its row; the other one's first candidate was taken, its
\* second one was free, and it is about to call create
C19_Witness ==
  \E p, q \in Procs :
    /\ frame[p].pc = "alloc_create"
    /\ frame[p].attempts = 2
    /\ ~ Stored(frame[p].short_code)
    /\ Returned(q, "create_short_url")
    /\ frame[q].ret.kind = "url"
    /\ frame[q].ret.url \in store
    /\ frame[q].ret.url.original_url = frame[q].original_url

\* C20: a call of create_short_url never makes more than 10 draws, is out of
\* its loop once it has made 10, and always ends, whatever the other caller
\* does in between, with the created row or with an exception.
C20_AllocationTerminates ==
  /\ [](\A p \in Procs :
          /\ frame[p].attempts <= 10
          /\ frame[p].pc = "alloc_loop" => frame[p].attempts < 10)
  /\ \A p \in Procs :
       (frame[p].pc \in {"alloc_loop", "alloc_create"}) ~>
         ( /\ Returned(p, "create_short_url")
           /\ frame[p].ret.kind \in {"url", "raise"} )

\* a call ended at its 10th draw while the other caller was in the middle of
\* a delete
C20_Witness ==
  \E p, q \in Procs :
    /\ Returned(p, "create_short_url")
    /\ frame[p].attempts = 10
    /\ frame[q].pc = "del_delete"

\* C21: the exhaustion failure and the blank-URL failure of create_short_url
\* are different kinds of error: they differ in exception class, and the
\* handler of POST /urls answers them with different status codes.
C21_ExhaustionDistinct ==
  \A p, q \in Procs :
    ( /\ Returned(p, "create_short_url") /\ frame[p].ret = Exhausted
      /\ Returned(q, "create_short_url") /\ frame[q].ret = EmptyUrl ) =>
        /\ exc_class(frame[p].ret.exc) # exc_class(frame[q].ret.exc)
        /\ create_short_url_response(frame[p].ret).status_code #
             create_short_url_response(frame[q].ret).status_code

\* C22: a get_url_by_code whose code is not stored, or is stored with
\* now <= created_at + TTL, returns at once, None or the stored row as it
\* is, and neither it nor any later step of the call writes: the store and
\* the id sequence are as they were.
C22_ResolveReadOnly ==
  [][\A p \in Procs, c \in CandidateCodes :
       ( /\ GetUrlByCodeCall(p, c)
         /\ db_up
         /\ \A r \in store :
              r.short_code = c => now <= r.created_at + timedelta(ttl) ) =>
           /\ store' = store
           /\ nextId' = nextId
           /\ Returned(p, "get_url_by_code")'
           /\ IF Stored(c)
                THEN /\ frame'[p].ret.kind = "url"
                     /\ frame'[p].ret.url \in store'
                     /\ frame'[p].ret.url.short_code = c
                ELSE frame'[p].ret = NoneRet]_vars

\* one call returned the only stored row, read after the clock moved; the
\* other call, for the code that is not stored, returned None with no purge
C22_Witness ==
  \E p, q \in Procs :
    /\ Returned(p, "get_url_by_code")
    /\ frame[p].ret.kind = "url"
    /\ store = {frame[p].ret.url}
    /\ now > frame[p].ret.url.created_at
    /\ Returned(q, "get_url_by_code")
    /\ frame[q].ret = NoneRet
    /\ frame[q].url = NoRow

\* C23: with TTL > 0, the delete that get_url_by_code or get_all_urls issues
\* for an expired row removes no row that is not expired, whatever the
\* other caller did since the purger read the row.
C23_PurgeSparesLiveRows ==
  [][ttl > 0 =>
       \A p \in Procs :
         ( /\ frame[p].op \in {"get_url_by_code", "get_all_urls"}
           /\ DelCommitStep(p) ) =>
             \A r \in store \ store' : now > r.created_at + timedelta(ttl)]_vars

\* C24: with TTL > 0, the rows cleanup_expired_urls selects at time now are
\* the stored rows is_url_expired judges expired at the same now: a row is
\* selected exactly when get_url_by_code of its code would take the purge
\* path, and a row of age exactly TTL is left by both.
C24_ExpiryRulesAgree ==
  [][ttl > 0 =>
       \A p \in Procs :
         (CleanupCall(p) /\ db_up) =>
           \A r \in store :
             /\ r \in frame'[p].expired_urls <=> is_url_expired(r.created_at, ttl, now)
             /\ r \in frame'[p].expired_urls <=>
                  \E q \in Procs :
                    ENABLED ( /\ GetUrlByCodeCall(q, r.short_code)
                              /\ frame'[q].pc = "del_lookup" )
             /\ now = r.created_at + timedelta(ttl) =>
                  /\ r \notin frame'[p].expired_urls
                  /\ ~ is_url_expired(r.created_at, ttl, now)]_vars

\* the sweep removed the older row and left the row whose age is exactly TTL
C24_Witness ==
  \E p \in Procs, r \in store :
    /\ ttl > 0
    /\ Returned(p, "cleanup_expired_urls")
    /\ frame[p].ret = IntRet(1)
    /\ store = {r}
    /\ now = r.created_at + timedelta(ttl)

\* C25: the step of create_short_url that returns a row adds that row and
\* nothing else: it was not stored, it carries the caller's original_url,
\* the candidate, the clock reading of the step and an id no stored row
\* has, and every row stored before is still there; every other step of a
\* create_short_url, among them those ending with the blank-URL or the
\* exhaustion error, leaves the store as it was.
C25_AllocateAddsOneRow ==
  [][\A p \in Procs :
       /\ AllocCreateStep(p) =>
            IF frame'[p].ret.kind = "url"
              THEN LET r == frame'[p].ret.url IN
                   /\ r \notin store
                   /\ store' = store \cup {r}
                   /\ Cardinality(store') = Cardinality(store) + 1
                   /\ r.original_url = frame[p].original_url
                   /\ r.short_code = frame[p].short_code
                   /\ r.created_at = now
                   /\ \A r1 \in store : r1.id # r.id
              ELSE store' = store
       /\ \A u \in UrlInputs : CreateShortUrlCall(p, u) => store' = store
       /\ \A c \in CandidateCodes : AllocAttemptStep(p, c) => store' = store
       /\ ( /\ frame'[p] # frame[p]
            /\ Returned(p, "create_short_url")'
            /\ frame'[p].ret \in {Exhausted, EmptyUrl} ) => store' = store]_vars

\* the second row was added beside an older one, under the next id
C25_Witness ==
  \E p \in Procs, r1 \in store :
    /\ Returned(p, "create_short_url")
    /\ frame[p].ret.kind = "url"
    /\ frame[p].ret.url \in store
    /\ frame[p].ret.url.id = 2
    /\ frame[p].ret.url.created_at = now
    /\ r1.id = 1
    /\ r1.created_at < now
    /\ Cardinality(store) = 2

====
